---- MODULE Spec2Model ----
(***************************************************************************)
(* Model of the tw-priority-hook programs:                                 *)
(*   src/on-add_priority.py            creation hook                       *)
(*   src/priority/on-modify_priority.py modification hook (with context)   *)
(*   src/on-modify_priority.py          modification hook (validation only)*)
(*   src/priority/need.py               the `need` command                 *)
(* and of the config file need.rc and the task store they work on.         *)
(*                                                                         *)
(* Text is a sequence of one-character strings, so that `in`, `==` and     *)
(* lower() are computed.  A config value is a sequence of tokens           *)
(* [p, a]: p the token's fixed part, a its text arguments.                 *)
(***************************************************************************)
EXTENDS Integers, Sequences, FiniteSets, TLC

VARIABLES store, cfg, pc, inv, out, exitCode, loc, hist, procs, query

vars == <<store, cfg, pc, inv, out, exitCode, loc, hist, procs, query>>

----------------------------------------------------------------------------
(* Bounds of the model *)

\* number of task identifiers the store can hold
MaxTasks == 2

----------------------------------------------------------------------------
(* Text *)

LowerChar(c) ==
    CASE c = "F" -> "f" [] c = "O" -> "o" [] c = "R" -> "r" [] OTHER -> c

\* str.lower()
lower(s) == [i \in 1..Len(s) |-> LowerChar(s[i])]

\* `sub in s` on strings
Contains(sub, s) ==
    \E i \in 0..(Len(s) - Len(sub)) : SubSeq(s, i + 1, i + Len(sub)) = sub

Urgent == <<"u", "r", "g", "e", "n", "t">>
Home == <<"h", "o", "m", "e">>
HomeRepair == <<"h", "o", "m", "e", ".", "r", "o", "o", "f">>
Roof == <<"r", "o", "o", "f">>
RoofUpper == <<"R", "O", "O", "F">>
FixRoof == <<"F", "i", "x", " ", "R", "o", "o", "f">>
BuyMilk == <<"b", "u", "y">>
Empty == <<>>

Digits == <<"0", "1", "2", "3", "4", "5", "6", "7", "8", "9">>

IsInt(s) == \E i \in 1..Len(Digits) : Digits[i] = s

\* int(s) of a one-digit string
IntOf(s) == (CHOOSE i \in 1..Len(Digits) : Digits[i] = s) - 1

\* str(n) of a one-digit number
Str(n) == Digits[n + 1]

Min(S) == CHOOSE x \in S : \A y \in S : x <= y
Max(S) == CHOOSE x \in S : \A y \in S : x >= y

----------------------------------------------------------------------------
(* Program constants *)

\* the level list every scan walks, in this order
VALID_PRIORITIES == <<"1", "2", "3", "4", "5", "6">>
DEFAULT_PRIORITY == "4"
MaxLevel == 6

Levels == {VALID_PRIORITIES[i] : i \in 1..Len(VALID_PRIORITIES)}

\* a field the JSON object does not have
Absent == "<absent>"
\* Python's None as a level
None == "<none>"

----------------------------------------------------------------------------
(* Config file need.rc: lines `key=value`.  ws: the line starts with      *)
(* whitespace; nl: the line ends with a newline (only the last line may   *)
(* lack it); a line with key "" has no `=` (an empty line).               *)

Tok(p, a) == [p |-> p, a |-> a]
Scalar(s) == <<Tok(s, <<>>)>>
\* the text of a scalar value, as an f-string interpolates it
TextOf(val) == IF val = <<>> THEN "" ELSE val[1].p

Line(key, val) == [ws |-> FALSE, key |-> key, val |-> val, nl |-> TRUE]
BlankLine == Line("", <<>>)

File(lines) == [exists |-> TRUE, lines |-> lines]
NoFile == [exists |-> FALSE, lines |-> <<>>]

SpanKey == "priority.span"
LookaheadKey == "priority.lookahead"
LookbackKey == "priority.lookback"
ContextKey == "context.needs.read"
AutoKeys == <<"priority.1.auto", "priority.2.auto", "priority.3.auto",
              "priority.4.auto", "priority.5.auto", "priority.6.auto">>

\* line.strip().startswith(key + '=')
StripMatches(line, key) == line.key = key

\* line.startswith(key + '=') on the raw line
RawMatches(line, key) == line.key = key /\ ~line.ws

get_config_value(c, key, default) ==
    IF ~c.exists THEN default
    ELSE LET idx == {i \in 1..Len(c.lines) : StripMatches(c.lines[i], key)}
         IN  IF idx = {} THEN default ELSE c.lines[Min(idx)].val

\* the text "\n" + key=value + "\n" written after the lines
AppendEntry(lines, key, value) ==
    IF lines = <<>> THEN <<BlankLine, Line(key, value)>>
    ELSE IF lines[Len(lines)].nl
         THEN lines \o <<BlankLine, Line(key, value)>>
         ELSE [lines EXCEPT ![Len(lines)].nl = TRUE] \o <<Line(key, value)>>

\* the loop of set_config_value: every matching line is rewritten
RewriteStrip(lines, key, value) ==
    [i \in 1..Len(lines) |->
        IF StripMatches(lines[i], key) THEN Line(key, value) ELSE lines[i]]

\* the loop of update_context_in_config / update_context
RewriteRaw(lines, key, value) ==
    [i \in 1..Len(lines) |->
        IF RawMatches(lines[i], key) THEN Line(key, value) ELSE lines[i]]

SetNoBlank(c, key, value) ==
    IF ~c.exists THEN [ok |-> FALSE, found |-> FALSE, cfg |-> c]
    ELSE LET found == \E i \in 1..Len(c.lines) : StripMatches(c.lines[i], key)
             lines == RewriteStrip(c.lines, key, value)
         IN  [ok |-> TRUE, found |-> found,
              cfg |-> File(IF found THEN lines
                           ELSE lines \o <<Line(key, value)>>)]

SetAlwaysAppends(c, key, value) ==
    IF ~c.exists THEN [ok |-> FALSE, found |-> FALSE, cfg |-> c]
    ELSE [ok |-> TRUE, found |-> FALSE,
          cfg |-> File(AppendEntry(c.lines, key, value))]

\* set_config_value: [ok: the result, found, cfg: the file afterwards]
set_config_value(c, key, value) ==
    IF ~c.exists THEN [ok |-> FALSE, found |-> FALSE, cfg |-> c]
    ELSE LET found == \E i \in 1..Len(c.lines) : StripMatches(c.lines[i], key)
             lines == RewriteStrip(c.lines, key, value)
         IN  [ok |-> TRUE, found |-> found,
              cfg |-> File(IF found THEN lines
                           ELSE AppendEntry(lines, key, value))]

\* lines 114-129 of update_context_in_config: the file with the filter set
write_context(c, filter_expr) ==
    IF ~c.exists THEN [ok |-> FALSE, found |-> FALSE, cfg |-> c]
    ELSE LET found == \E i \in 1..Len(c.lines) : RawMatches(c.lines[i], ContextKey)
             lines == RewriteRaw(c.lines, ContextKey, filter_expr)
         IN  [ok |-> TRUE, found |-> found,
              cfg |-> File(IF found THEN lines
                           ELSE AppendEntry(lines, ContextKey, filter_expr))]

----------------------------------------------------------------------------
(* Tasks and the task store (Taskwarrior), as the count queries see it *)

Uuids == 1..MaxTasks
NoUuidNum == 0

Task(u, st, pri, tags, proj, desc) ==
    [uuid |-> u, status |-> st, priority |-> pri, tags |-> tags,
     project |-> proj, description |-> desc]

NullTask == Task(NoUuidNum, "none", Absent, {}, Empty, Empty)

\* an input or output line: kind "task" (a JSON object), "garbage" (text
\* json.loads or .get() rejects), "undecodable" (bytes readline() cannot
\* decode), "none" (no line); fmt: "tw" as the store wrote it, "py" as
\* json.dumps writes it
JsonLine(fmt, t) == [kind |-> "task", fmt |-> fmt, task |-> t]
Garbage == [kind |-> "garbage", fmt |-> "tw", task |-> NullTask]
Undecodable == [kind |-> "undecodable", fmt |-> "tw", task |-> NullTask]
NoLine == [kind |-> "none", fmt |-> "tw", task |-> NullTask]

\* json.dumps(task)
dumps(t) == JsonLine("py", t)

\* a stored task: what the count queries read of it
Stored(st, pri) == [status |-> st, priority |-> pri]
NoTask == Stored("none", Absent)
EmptyStore == [u \in Uuids |-> NoTask]

\* how a `task priority:<level> status:pending count` run ends, per level:
\* "ok": exit 0 and a number on stdout; "err": a nonzero exit;
\* "exc": subprocess.run raises, or int() raises on stdout that is no number
Outcomes == {"ok", "err", "exc"}
AllOk == [level \in Levels |-> "ok"]

\* `task priority:<level> status:pending count`
count_pending(s, level) ==
    Cardinality({u \in Uuids : s[u].status = "pending" /\ s[u].priority = level})

\* `task uuid:<u> priority:<level> count`: any status
count_uuid(s, u, level) ==
    IF u \in Uuids /\ s[u].status # "none" /\ s[u].priority = level THEN 1 ELSE 0

RECURSIVE ScanLevels(_, _, _)
\* the loop of get_lowest_priority (on-modify), from the i-th level on; the
\* try encloses the loop, so an exception ends the scan with None
ScanLevels(s, exclude_uuid, i) ==
    IF i > Len(VALID_PRIORITIES) THEN None
    ELSE LET level == VALID_PRIORITIES[i]
             count == IF query[level] = "ok" THEN count_pending(s, level) ELSE 0
             adjusted == IF exclude_uuid # NoUuidNum /\ count > 0
                         THEN count - count_uuid(s, exclude_uuid, level)
                         ELSE count
         IN  IF query[level] = "exc" THEN None
             ELSE IF adjusted > 0 THEN level
             ELSE ScanLevels(s, exclude_uuid, i + 1)

get_lowest_priority(s, exclude_uuid) == ScanLevels(s, exclude_uuid, 1)

\* need.py: get_task_counts; the try encloses the loop, so an exception
\* leaves its level and every later one at the initial 0
get_task_counts(s) ==
    LET raised == {n \in 1..Len(VALID_PRIORITIES) : query[VALID_PRIORITIES[n]] = "exc"}
        stop == IF raised = {} THEN Len(VALID_PRIORITIES) + 1 ELSE Min(raised)
    IN  [level \in Levels |->
            IF IntOf(level) < stop /\ query[level] = "ok"
            THEN count_pending(s, level) ELSE 0]

\* need.py: get_lowest_priority
need_get_lowest_priority(s) ==
    LET counts == get_task_counts(s)
        found == {n \in 1..Len(VALID_PRIORITIES) : counts[VALID_PRIORITIES[n]] > 0}
    IN  IF found = {} THEN None ELSE VALID_PRIORITIES[Min(found)]

----------------------------------------------------------------------------
(* The context filter *)

Or == Tok("or", <<>>)
PriorityClause(n) == Tok("priority:", <<Str(n)>>)
\* ( due.before:today+<lookahead> and due.after:today-<lookback> )
DueWindow(lookahead, lookback) == Tok("due.window", <<lookahead, lookback>>)
\* ( scheduled.before:today+<lookahead> and sched.after:today-<lookback> )
SchedWindow(lookahead, lookback) == Tok("scheduled.window", <<lookahead, lookback>>)

RECURSIVE JoinOr(_)
\* " or ".join(clauses)
JoinOr(clauses) ==
    IF Len(clauses) <= 1 THEN clauses
    ELSE <<Head(clauses), Or>> \o JoinOr(Tail(clauses))

BuildSpanOffByOne(min_priority, span, lookahead, lookback) ==
    LET min_pri == IntOf(min_priority)
        max_pri == Min({min_pri + IntOf(span), MaxLevel})
        pri_filters == [i \in 1..(max_pri - min_pri + 1) |->
                            PriorityClause(min_pri + i - 1)]
    IN  JoinOr(pri_filters)
            \o <<Or, DueWindow(lookahead, lookback), Or, SchedWindow(lookahead, lookback)>>

build_context_filter(min_priority, span, lookahead, lookback) ==
    LET min_pri == IntOf(min_priority)
        max_pri == Min({min_pri + IntOf(span) - 1, MaxLevel})
        pri_filters == [i \in 1..(max_pri - min_pri + 1) |->
                            PriorityClause(min_pri + i - 1)]
        pri_expr == JoinOr(pri_filters)
    IN  pri_expr
            \o <<Or, DueWindow(lookahead, lookback), Or, SchedWindow(lookahead, lookback)>>

NoLoc == [rulesRead |-> FALSE, ctxRun |-> FALSE, ctxOk |-> FALSE,
          exclude |-> NoUuidNum, lowest |-> None,
          span |-> "", lookahead |-> "", lookback |-> "", filter |-> <<>>]

\* update_context_in_config / update_context after `lowest` is known:
\* [ok, cfg: the file afterwards, span, lookahead, lookback: the values
\* read, filter: filter_expr]
update_context(c, lowest) ==
    IF lowest = None
    THEN LET w == write_context(c, <<>>)
         IN  [ok |-> w.ok, cfg |-> w.cfg, span |-> "", lookahead |-> "",
              lookback |-> "", filter |-> <<>>]
    ELSE LET span == TextOf(get_config_value(c, SpanKey, Scalar("2")))
             lookahead == TextOf(get_config_value(c, LookaheadKey, Scalar("2d")))
             lookback == TextOf(get_config_value(c, LookbackKey, Scalar("1w")))
         IN  IF ~IsInt(span)
             THEN \* int(span) raises: caught, nothing written
                  [ok |-> FALSE, cfg |-> c, span |-> span,
                   lookahead |-> lookahead, lookback |-> lookback, filter |-> <<>>]
             ELSE LET filter_expr ==
                          build_context_filter(lowest, span, lookahead, lookback)
                      w == write_context(c, filter_expr)
                  IN  [ok |-> w.ok, cfg |-> w.cfg, span |-> span,
                       lookahead |-> lookahead, lookback |-> lookback,
                       filter |-> filter_expr]

update_context_in_config(s, c, exclude_uuid) ==
    update_context(c, get_lowest_priority(s, exclude_uuid))

----------------------------------------------------------------------------
(* Creation hook: src/on-add_priority.py *)

\* parse_auto_rules: a function from the levels that have a rule line to
\* that line's filters; a later line for a level replaces an earlier one
parse_auto_rules(c) ==
    IF ~c.exists THEN [L \in {} |-> <<>>]
    ELSE LET hits(n) == {i \in 1..Len(c.lines) :
                            /\ StripMatches(c.lines[i], AutoKeys[n])
                            /\ c.lines[i].val # <<>>}
             present == {n \in 1..Len(AutoKeys) : hits(n) # {}}
         IN  [L \in {VALID_PRIORITIES[n] : n \in present} |->
                 c.lines[Max(hits(IntOf(L)))].val]

task_matches_filter(task, filter_expr) ==
    IF filter_expr.p = "+" THEN filter_expr.a \in task.tags
    ELSE IF filter_expr.p = "proj:" THEN task.project = filter_expr.a
    ELSE IF filter_expr.p = "proj.has:" THEN Contains(filter_expr.a, task.project)
    ELSE IF filter_expr.p = "desc.has:"
         THEN Contains(lower(filter_expr.a), lower(task.description))
    ELSE FALSE

RECURSIVE ScanRules(_, _, _)
ScanRules(task, rules, i) ==
    IF i > Len(VALID_PRIORITIES) THEN None
    ELSE LET level == VALID_PRIORITIES[i]
         IN  IF level \notin DOMAIN rules THEN ScanRules(task, rules, i + 1)
             ELSE IF \E j \in 1..Len(rules[level]) :
                        task_matches_filter(task, rules[level][j])
                  THEN level
                  ELSE ScanRules(task, rules, i + 1)

RECURSIVE ScanRulesDescending(_, _, _)
ScanRulesDescending(task, rules, i) ==
    IF i < 1 THEN None
    ELSE LET level == VALID_PRIORITIES[i]
         IN  IF level \in DOMAIN rules
                /\ \E j \in 1..Len(rules[level]) :
                        task_matches_filter(task, rules[level][j])
             THEN level
             ELSE ScanRulesDescending(task, rules, i - 1)

DetermineHighestLevel(task, rules) ==
    ScanRulesDescending(task, rules, Len(VALID_PRIORITIES))

determine_priority(task, rules) == ScanRules(task, rules, 1)

\* `'priority' in task and task['priority']`
PrioritySet(task) == task.priority # Absent /\ task.priority # ""

AddAlwaysResolves(raw, c) ==
    IF raw.kind # "task" THEN [out |-> <<raw>>, exit |-> 1, rulesRead |-> FALSE]
    ELSE LET rules == parse_auto_rules(c)
             priority == determine_priority(raw.task, rules)
         IN  [out |-> <<dumps([raw.task EXCEPT !.priority =
                                 IF priority # None THEN priority ELSE "4"])>>,
              exit |-> 0, rulesRead |-> TRUE]

\* main: [out: the lines printed, exit: the exit code, rulesRead]
on_add_main(raw, c) ==
    IF raw.kind = "undecodable"
    THEN \* readline() raises; the handler's print(task_json) raises again
         [out |-> <<>>, exit |-> 1, rulesRead |-> FALSE]
    ELSE IF raw.kind # "task"
    THEN [out |-> <<raw>>, exit |-> 1, rulesRead |-> FALSE]
    ELSE IF PrioritySet(raw.task)
    THEN [out |-> <<raw>>, exit |-> 0, rulesRead |-> FALSE]
    ELSE LET rules == parse_auto_rules(c)
             priority == IF DOMAIN rules = {} THEN None
                         ELSE determine_priority(raw.task, rules)
         IN  [out |-> <<dumps([raw.task EXCEPT !.priority =
                                 IF priority # None THEN priority ELSE "4"])>>,
              exit |-> 0, rulesRead |-> TRUE]

----------------------------------------------------------------------------
(* Modification hooks *)

NoUpdate(c) ==
    [ok |-> FALSE, cfg |-> c, span |-> "", lookahead |-> "", lookback |-> "",
     filter |-> <<>>]

\* lines 158-168 of src/priority/on-modify_priority.py: the priority emitted
validate_priority(modified) ==
    IF modified.priority = Absent \/ modified.priority = ""
    THEN IF modified.status # "deleted" THEN DEFAULT_PRIORITY ELSE modified.priority
    ELSE IF modified.priority \notin Levels THEN DEFAULT_PRIORITY
    ELSE modified.priority

\* lines 45-54 of src/on-modify_priority.py
validate_priority_basic(modified) ==
    IF modified.priority = Absent \/ modified.priority = "" THEN DEFAULT_PRIORITY
    ELSE IF modified.priority \notin Levels THEN DEFAULT_PRIORITY
    ELSE modified.priority

\* main of src/priority/on-modify_priority.py:
\* [out, exit, ctxRun, exclude, lowest, up: the context update's result]
on_modify_main(orig, mod, s, c) ==
    IF orig.kind = "undecodable" \/ mod.kind = "undecodable"
    THEN [out |-> <<>>, exit |-> 1, ctxRun |-> FALSE, exclude |-> NoUuidNum,
          lowest |-> None, up |-> NoUpdate(c)]
    ELSE IF orig.kind # "task" \/ mod.kind # "task"
    THEN [out |-> <<mod>>, exit |-> 1, ctxRun |-> FALSE, exclude |-> NoUuidNum,
          lowest |-> None, up |-> NoUpdate(c)]
    ELSE LET modified == mod.task
             is_deletion == modified.status = "deleted"
             is_completion == modified.status = "completed"
             exclude == IF is_deletion \/ is_completion
                        THEN modified.uuid ELSE NoUuidNum
         IN  [out |-> <<dumps([modified EXCEPT
                                 !.priority = validate_priority(modified)])>>,
              exit |-> 0, ctxRun |-> TRUE, exclude |-> exclude,
              lowest |-> get_lowest_priority(s, exclude),
              up |-> update_context_in_config(s, c, exclude)]

\* main of src/on-modify_priority.py: [out, exit]
on_modify_basic_main(orig, mod) ==
    IF orig.kind = "undecodable" \/ mod.kind = "undecodable"
    THEN [out |-> <<>>, exit |-> 1]
    ELSE IF orig.kind # "task" \/ mod.kind # "task"
    THEN [out |-> <<mod>>, exit |-> 1]
    ELSE [out |-> <<dumps([mod.task EXCEPT
                            !.priority = validate_priority_basic(mod.task)])>>,
          exit |-> 0]

----------------------------------------------------------------------------
(* One invocation: inv records what was run and on which input *)

Inv(event, orig, mod, arg) == [event |-> event, orig |-> orig, mod |-> mod, arg |-> arg]
NoInv == Inv("none", NoLine, NoLine, "")
\* hist: lastSet, prevSet: the values of the last two set_config_value
\* calls; setOk, setFound: the last call's result and its `found`;
\* init: the lines of the file before two overlapping runs started
NoHist == [lastSet |-> "", prevSet |-> "", setOk |-> FALSE, setFound |-> FALSE,
           init |-> <<>>]
Procs == {"A", "B"}
NoProc == [kind |-> "none", arg |-> "", pc |-> "done", ok |-> FALSE,
           lines |-> <<>>, found |-> FALSE, filter |-> <<>>]
NoProcs == [p \in Procs |-> NoProc]

\* the kind of task event of a hook invocation
EventKind(event, mod) ==
    IF event = "add" THEN "creation"
    ELSE IF mod.kind = "task" /\ mod.task.status = "deleted" THEN "deletion"
    ELSE IF mod.kind = "task" /\ mod.task.status = "completed" THEN "completion"
    ELSE "modification"

LocOf(ctxRun, exclude, lowest, up) ==
    [rulesRead |-> FALSE, ctxRun |-> ctxRun, ctxOk |-> up.ok, exclude |-> exclude,
     lowest |-> lowest, span |-> up.span, lookahead |-> up.lookahead,
     lookback |-> up.lookback, filter |-> up.filter]

\* the store runs on-add_priority.py on a new task
OnAdd(raw) ==
    /\ pc = "idle"
    /\ LET r == on_add_main(raw, cfg)
       IN  /\ out' = r.out
           /\ exitCode' = r.exit
           /\ loc' = [NoLoc EXCEPT !.rulesRead = r.rulesRead]
    /\ inv' = Inv("add", NoLine, raw, EventKind("add", raw))
    /\ pc' = "ran"
    /\ UNCHANGED <<store, cfg, hist, procs, query>>

\* the store runs priority/on-modify_priority.py on a changed task
OnModify(orig, mod) ==
    /\ pc = "idle"
    /\ LET r == on_modify_main(orig, mod, store, cfg)
       IN  /\ out' = r.out
           /\ exitCode' = r.exit
           /\ cfg' = r.up.cfg
           /\ loc' = LocOf(r.ctxRun, r.exclude, r.lowest, r.up)
    /\ inv' = Inv("modify", orig, mod, EventKind("modify", mod))
    /\ pc' = "ran"
    /\ UNCHANGED <<store, hist, procs, query>>

\* the store runs on-modify_priority.py on a changed task
OnModifyBasic(orig, mod) ==
    /\ pc = "idle"
    /\ LET r == on_modify_basic_main(orig, mod)
       IN  /\ out' = r.out
           /\ exitCode' = r.exit
    /\ loc' = NoLoc
    /\ inv' = Inv("modify_basic", orig, mod, EventKind("modify_basic", mod))
    /\ pc' = "ran"
    /\ UNCHANGED <<store, cfg, hist, procs, query>>

IsHook(event) == event \in {"add", "modify", "modify_basic"}

\* the invocation is over; after a hook that exited 0 the store saves the
\* task the hook emitted
Settle ==
    /\ pc = "ran"
    /\ store' = IF IsHook(inv.event) /\ exitCode = 0 /\ Len(out) = 1
                   /\ out[1].kind = "task" /\ out[1].task.uuid \in Uuids
                THEN [store EXCEPT ![out[1].task.uuid] =
                        Stored(out[1].task.status, out[1].task.priority)]
                ELSE store
    /\ pc' = "idle"
    /\ inv' = Inv(inv.event, NoLine, NoLine, inv.arg)
    /\ out' = <<>>
    /\ loc' = NoLoc
    /\ UNCHANGED <<cfg, exitCode, hist, procs, query>>

----------------------------------------------------------------------------
(* need.rc contents and inputs the specifications draw from *)

RulesExample ==
    <<Line(AutoKeys[1], <<Tok("+", Urgent)>>), Line(AutoKeys[2], <<Tok("proj:", Home)>>)>>
RulesReversed ==
    <<[Line(AutoKeys[2], <<Tok("proj:", Home)>>) EXCEPT !.ws = TRUE],
      Line(AutoKeys[1], <<Tok("+", Urgent)>>)>>
RulesContains ==
    <<Line(AutoKeys[3], <<Tok("proj.has:", Roof), Tok("desc.has:", RoofUpper)>>),
      Line(AutoKeys[5], <<Tok("+", Urgent)>>)>>
RulesMalformed ==
    <<Line("priority.7.auto", <<Tok("+", Urgent)>>),
      Line(AutoKeys[6], <<Tok("desc.has:", Roof)>>),
      Line(AutoKeys[4], <<>>)>>
RulesDuplicate ==
    <<Line(AutoKeys[2], <<Tok("+", Urgent)>>), Line(AutoKeys[2], <<Tok("proj:", Home)>>)>>
RulesUnknown ==
    <<Line(AutoKeys[1], <<Tok("project:", Home), Tok("", <<>>)>>),
      Line(AutoKeys[3], <<Tok("+", Urgent)>>)>>

RuleVariants ==
    {<<>>, RulesExample, RulesReversed, RulesContains, RulesMalformed,
     RulesDuplicate, RulesUnknown}

SpanLine(n) == Line(SpanKey, Scalar(Str(n)))
ContextLine == Line(ContextKey, <<>>)
LookLines == <<Line(LookaheadKey, Scalar("3d")), Line(LookbackKey, Scalar("2w"))>>

OnceFiles ==
    {File(r \o <<ContextLine>>) : r \in RuleVariants}
    \cup {File(RulesExample \o <<SpanLine(n), ContextLine>>) : n \in 1..MaxLevel}
    \cup {File(<<SpanLine(4)>> \o LookLines),
          File(<<[Line(AutoKeys[1], <<Tok("+", Urgent)>>) EXCEPT !.nl = FALSE]>>),
          NoFile}

OneTask(st, pri) == [EmptyStore EXCEPT ![1] = Stored(st, pri)]

OnceStores ==
    {EmptyStore} \cup {OneTask("pending", L) : L \in Levels}
    \cup {OneTask("completed", "2")}

PriorityInputs == Levels \cup {Absent, "", "H", "7"}

AddInputs ==
    {JsonLine("tw", Task(MaxTasks, "pending", pri, tags, proj, desc)) :
        pri \in PriorityInputs, tags \in {{}, {Urgent}},
        proj \in {Empty, Home, HomeRepair}, desc \in {BuyMilk, FixRoof}}
    \cup {Garbage, Undecodable}

ModInputs ==
    {JsonLine("tw", Task(1, st, pri, {}, Empty, BuyMilk)) :
        st \in {"pending", "completed", "deleted"}, pri \in PriorityInputs}
    \cup {Garbage, Undecodable}

\* the original task line the store sends with a modification
OrigLine(s, u) ==
    JsonLine("tw", Task(u, IF s[u].status = "none" THEN "pending" ELSE s[u].status,
                        s[u].priority, {}, Empty, BuyMilk))

OrigInputs(s) == {OrigLine(s, 1), Garbage, Undecodable}

InitRest ==
    /\ pc = "idle"
    /\ inv = NoInv
    /\ out = <<>>
    /\ exitCode = 0
    /\ loc = NoLoc
    /\ hist = NoHist
    /\ procs = NoProcs
    /\ query = AllOk

----------------------------------------------------------------------------
(* SpecOnce: one hook invocation from any of the drawn stores and files *)

InitOnce ==
    /\ store \in OnceStores
    /\ cfg \in OnceFiles
    /\ InitRest

NextOnce ==
    \/ \E raw \in AddInputs : OnAdd(raw)
    \/ \E orig \in OrigInputs(store), mod \in ModInputs : OnModify(orig, mod)
    \/ \E orig \in OrigInputs(store), mod \in ModInputs : OnModifyBasic(orig, mod)

SpecOnce == InitOnce /\ [][NextOnce]_vars

----------------------------------------------------------------------------
(* Claims about one hook invocation, checked under SpecOnce *)

Ran(event) == pc = "ran" /\ inv.event = event

\* the creation hook ran on a task that carries no priority
AddedWithoutPriority ==
    Ran("add") /\ inv.mod.kind = "task" /\ ~PrioritySet(inv.mod.task)

\* the levels of the rule table that have a filter matching the task
MatchingLevels(task, rules) ==
    {n \in 1..MaxLevel :
        /\ VALID_PRIORITIES[n] \in DOMAIN rules
        /\ \E j \in 1..Len(rules[VALID_PRIORITIES[n]]) :
                task_matches_filter(task, rules[VALID_PRIORITIES[n]][j])}

\* C1: a task that arrives at the creation hook without a priority is
\* emitted with the lowest-numbered level that has a matching filter, and
\* with "4" when no level has one or the rule table is empty.
C1_LowestMatchingLevel ==
    AddedWithoutPriority =>
        LET m == MatchingLevels(inv.mod.task, parse_auto_rules(cfg))
        IN  /\ Len(out) = 1
            /\ out[1].kind = "task"
            /\ out[1].task.priority =
                  IF m = {} THEN "4" ELSE VALID_PRIORITIES[Min(m)]

\* a task tagged urgent in project home met the rules {1: +urgent,
\* 2: proj:home} and got level 1
C1_Witness ==
    /\ AddedWithoutPriority
    /\ cfg.exists /\ Len(cfg.lines) >= 2 /\ SubSeq(cfg.lines, 1, 2) = RulesExample
    /\ inv.mod.task.tags = {Urgent} /\ inv.mod.task.project = Home
    /\ Len(out) = 1 /\ out[1].task.priority = "1"

\* C2: a hook that exits 0 never emits a task whose priority is present
\* and not one of "1".."6".
C2_EmittedPriorityValid ==
    (pc = "ran" /\ IsHook(inv.event) /\ exitCode = 0) =>
        \A i \in 1..Len(out) :
            out[i].kind = "task" => out[i].task.priority \in Levels \cup {Absent}

\* a modification hook ran on a task whose priority is missing or invalid
ModifiedWithBadPriority ==
    /\ pc = "ran" /\ inv.event \in {"modify", "modify_basic"}
    /\ inv.orig.kind = "task" /\ inv.mod.kind = "task"
    /\ inv.mod.task.priority \notin Levels

\* C5: on a modification whose task has a missing or invalid priority the
\* emitted priority is "4" unless the new status is "deleted", and is as
\* received when the new status is "deleted".
C5_RepairUnlessDeleted ==
    ModifiedWithBadPriority =>
        /\ Len(out) = 1
        /\ out[1].kind = "task"
        /\ out[1].task.priority =
              IF inv.mod.task.status = "deleted" THEN inv.mod.task.priority
              ELSE "4"

\* C6: the filter built for lowest level m and span s is priority:m or ..
\* or priority:min(m+s-1, 6), then the due window, then the scheduled
\* window; with no lowest level the filter is empty.
C6_FilterShape ==
    (pc = "ran" /\ loc.ctxRun) =>
        IF loc.lowest = None THEN loc.filter = <<>>
        ELSE LET m == IntOf(loc.lowest)
                 s == IntOf(loc.span)
                 hi == IF m + s - 1 < 6 THEN m + s - 1 ELSE 6
                 k == hi - m + 1
                 f == loc.filter
             IN  /\ s \in 1..6
                 /\ Len(f) = 2 * k + 3
                 /\ \A j \in 1..k : f[2 * j - 1] = Tok("priority:", <<Str(m + j - 1)>>)
                 /\ \A j \in 1..(k + 1) : f[2 * j] = Tok("or", <<>>)
                 /\ f[2 * k + 1] = Tok("due.window", <<loc.lookahead, loc.lookback>>)
                 /\ f[2 * k + 2] = Tok("or", <<>>)
                 /\ f[2 * k + 3] = Tok("scheduled.window", <<loc.lookahead, loc.lookback>>)

\* lowest level 5 with span 4: the filter is capped at level 6
C6_Witness ==
    /\ pc = "ran" /\ loc.ctxRun
    /\ loc.lowest = "5" /\ loc.span = "4"
    /\ Len(loc.filter) = 7

\* the creation hook ran on a task that carries a valid priority
AddedWithValidPriority ==
    Ran("add") /\ inv.mod.kind = "task" /\ inv.mod.task.priority \in Levels

\* C9: a task that arrives at the creation hook with a valid priority is
\* emitted equal in every field, and the rule table is not read.
C9_ValidPriorityPassesThrough ==
    AddedWithValidPriority =>
        /\ Len(out) = 1
        /\ out[1].kind = "task"
        /\ out[1].task = inv.mod.task
        /\ ~loc.rulesRead
        /\ exitCode = 0

\* a task with priority 5 met a rule table whose level 1 matches it
C9_Witness ==
    /\ AddedWithValidPriority
    /\ inv.mod.task.priority = "5"
    /\ 1 \in MatchingLevels(inv.mod.task, parse_auto_rules(cfg))
    /\ Len(out) = 1

\* C10: every hook invocation emits exactly one line; it exits 0, or it
\* exits 1 and the line is the (modified) input line as received.
C10_ExactlyOneTaskEmitted ==
    (pc = "ran" /\ IsHook(inv.event)) =>
        /\ Len(out) = 1
        /\ \/ exitCode = 0
           \/ exitCode = 1 /\ out[1] = inv.mod

----------------------------------------------------------------------------
(* Spec: the store and the hooks over time.  Each task event runs one     *)
(* hook to completion, then the store saves the emitted task.             *)

WorldFiles ==
    {File(RulesExample \o <<ContextLine>>),
     File(RulesExample \o <<SpanLine(1), ContextLine>>)}

WorldAddInputs(s) ==
    {JsonLine("tw", Task(u, "pending", pri, tp[1], tp[2], BuyMilk)) :
        u \in {v \in Uuids : s[v].status = "none"},
        pri \in {Absent, "5"},
        tp \in {<<{}, Empty>>, <<{Urgent}, Home>>}}

WorldModInputs(s, u) ==
    {JsonLine("tw", Task(u, st, pri, {}, Empty, BuyMilk)) :
        st \in {"pending", "completed", "deleted"},
        pri \in {s[u].priority, "2"}}

Tasks(s) == {u \in Uuids : s[u].status # "none"}

Init ==
    /\ store = EmptyStore
    /\ cfg \in WorldFiles
    /\ InitRest

Next ==
    \/ \E raw \in WorldAddInputs(store) : OnAdd(raw)
    \/ \E u \in Tasks(store) : \E mod \in WorldModInputs(store, u) :
            OnModify(OrigLine(store, u), mod)
    \/ \E u \in Tasks(store) : \E mod \in WorldModInputs(store, u) :
            OnModifyBasic(OrigLine(store, u), mod)
    \/ Settle

Spec == Init /\ [][Next]_vars

\* the lowest-numbered level with a pending task, None without one
LowestPending(s) ==
    LET active == {n \in 1..MaxLevel :
                      \E u \in Uuids : /\ s[u].status = "pending"
                                       /\ s[u].priority = VALID_PRIORITIES[n]}
    IN  IF active = {} THEN None ELSE VALID_PRIORITIES[Min(active)]

\* the filter the policy of file c gives for store s
FilterFor(s, c) ==
    IF LowestPending(s) = None THEN <<>>
    ELSE build_context_filter(LowestPending(s),
             TextOf(get_config_value(c, SpanKey, Scalar("2"))),
             TextOf(get_config_value(c, LookaheadKey, Scalar("2d"))),
             TextOf(get_config_value(c, LookbackKey, Scalar("1w"))))

\* C3: after every creation, modification, completion or deletion event
\* (hook run, emitted task saved) the filter persisted under
\* context.needs.read is the one built from the lowest level with a pending
\* task in the resulting store, and is empty when no task is pending.
C3_FilterFollowsStore ==
    (pc = "idle" /\ IsHook(inv.event)) =>
        get_config_value(cfg, ContextKey, <<>>) = FilterFor(store, cfg)

----------------------------------------------------------------------------
(* The `need` command: src/priority/need.py *)

\* cmd_span's check of its argument
ValidSpan(new_span) ==
    IsInt(new_span) /\ IntOf(new_span) >= 1 /\ IntOf(new_span) <= 6

\* cmd_span: [exit, called: set_config_value was called, set: its result]
cmd_span(new_span, c) ==
    IF ~ValidSpan(new_span)
    THEN [exit |-> 1, called |-> FALSE,
          set |-> [ok |-> FALSE, found |-> FALSE, cfg |-> c]]
    ELSE LET r == set_config_value(c, SpanKey, Scalar(Str(IntOf(new_span))))
         IN  [exit |-> IF r.ok THEN 0 ELSE 1, called |-> TRUE, set |-> r]

\* `need span <new_span>`
CmdSpan(new_span) ==
    /\ pc = "idle"
    /\ LET r == cmd_span(new_span, cfg)
       IN  /\ cfg' = r.set.cfg
           /\ exitCode' = r.exit
           /\ hist' = IF r.called
                      THEN [hist EXCEPT !.lastSet = Str(IntOf(new_span)),
                                        !.prevSet = hist.lastSet,
                                        !.setOk = r.set.ok,
                                        !.setFound = r.set.found]
                      ELSE hist
    /\ inv' = Inv("span", NoLine, NoLine, new_span)
    /\ out' = <<>>
    /\ loc' = NoLoc
    /\ pc' = "ran"
    /\ UNCHANGED <<store, procs, query>>

\* `need update`: update_context()
CmdUpdate ==
    /\ pc = "idle"
    /\ LET lowest == need_get_lowest_priority(store)
           up == update_context(cfg, lowest)
       IN  /\ cfg' = up.cfg
           /\ exitCode' = IF up.ok THEN 0 ELSE 1
           /\ loc' = LocOf(TRUE, NoUuidNum, lowest, up)
    /\ inv' = Inv("update", NoLine, NoLine, "")
    /\ out' = <<>>
    /\ pc' = "ran"
    /\ UNCHANGED <<store, hist, procs, query>>

\* `need`: show_report(), the values it reads
CmdReport ==
    /\ pc = "idle"
    /\ loc' = [NoLoc EXCEPT
                 !.lowest = need_get_lowest_priority(store),
                 !.filter = get_config_value(cfg, ContextKey, <<>>),
                 !.span = TextOf(get_config_value(cfg, SpanKey, Scalar("2"))),
                 !.lookahead = TextOf(get_config_value(cfg, LookaheadKey, Scalar("2d"))),
                 !.lookback = TextOf(get_config_value(cfg, LookbackKey, Scalar("1w")))]
    /\ exitCode' = 0
    /\ inv' = Inv("report", NoLine, NoLine, "")
    /\ out' = <<>>
    /\ pc' = "ran"
    /\ UNCHANGED <<store, cfg, hist, procs, query>>

NeedFiles ==
    {NoFile,
     File(<<>>),
     File(RulesExample \o <<SpanLine(2), ContextLine>>),
     File(<<SpanLine(2), Line(AutoKeys[1], <<Tok("+", Urgent)>>), SpanLine(5)>>),
     File(<<Line(AutoKeys[1], <<Tok("+", Urgent)>>),
            [ContextLine EXCEPT !.nl = FALSE]>>),
     File(<<[SpanLine(3) EXCEPT !.ws = TRUE], BlankLine,
            [ContextLine EXCEPT !.ws = TRUE]>>)}

SpanArgs == {"0", "2", "5", "x"}

InitNeed ==
    /\ store \in {EmptyStore, OneTask("pending", "3")}
    /\ cfg \in NeedFiles
    /\ InitRest

NextNeed ==
    \/ \E a \in SpanArgs : CmdSpan(a)
    \/ CmdUpdate
    \/ CmdReport
    \/ Settle

SpecNeed == InitNeed /\ [][NextNeed]_vars

----------------------------------------------------------------------------
(* Claims about the config file, checked under SpecNeed *)

\* two lines with the same text, whatever ends them
SameText(a, b) == [a EXCEPT !.nl = TRUE] = [b EXCEPT !.nl = TRUE]

\* a step in which set_config_value(priority.span, ..) returned True
SpanSetStep ==
    /\ pc = "idle" /\ pc' = "ran" /\ inv'.event = "span"
    /\ ValidSpan(inv'.arg) /\ hist'.setOk

\* a step in which the context filter was written
ContextSetStep ==
    pc = "idle" /\ pc' = "ran" /\ inv'.event = "update" /\ loc'.ctxOk

\* the set as the claim has it: only the first line with the key changes;
\* an absent key makes the file one line longer
FrameFirstOnly(old, new, hit, key, value) ==
    IF hit # {}
    THEN /\ Len(new) = Len(old)
         /\ \A i \in 1..Len(old) : i # Min(hit) => new[i] = old[i]
    ELSE /\ Len(new) = Len(old) + 1
         /\ \A i \in 1..Len(old) : SameText(new[i], old[i])
         /\ new[Len(new)] = Line(key, value)

\* the set as the code has it: every line with the key changes; an absent
\* key is appended after an empty line, which ends an unterminated last line
FrameEveryMatch(old, new, hit, key, value) ==
    IF hit # {}
    THEN /\ Len(new) = Len(old)
         /\ \A i \in 1..Len(old) :
                new[i] = IF i \in hit THEN Line(key, value) ELSE old[i]
    ELSE LET n == Len(old)
             terminated == n = 0 \/ old[n].nl
         IN  /\ Len(new) = n + (IF terminated THEN 2 ELSE 1)
             /\ \A i \in 1..n : SameText(new[i], old[i]) /\ new[i].nl
             /\ terminated => new[n + 1] = BlankLine
             /\ new[Len(new)] = Line(key, value)

StripHits(lines, key) == {i \in 1..Len(lines) : lines[i].key = key}
RawHits(lines, key) == {i \in 1..Len(lines) : lines[i].key = key /\ ~lines[i].ws}

C8_GetReturnsLastSet ==
    (Ran("report") /\ hist.lastSet # "") => loc.span = hist.lastSet

\* C8 amended: when the file exists a get after the last of the sets
\* returns the value last written; when it does not exist the set fails
\* and the get returns the default.
C8_GetReturnsLastSetIfFileExists ==
    (Ran("report") /\ hist.lastSet # "") =>
        IF cfg.exists THEN hist.setOk /\ loc.span = hist.lastSet
        ELSE ~hist.setOk /\ loc.span = "2"

\* 5 and then 2 were written to a file that had no priority.span line; the
\* report reads 2
C8_Witness ==
    /\ Ran("report")
    /\ hist.prevSet = "5" /\ hist.lastSet = "2"
    /\ cfg.exists /\ loc.span = "2"
    /\ Len(cfg.lines) = 4 /\ cfg.lines[1].key = AutoKeys[1]

----------------------------------------------------------------------------
(* SpecConc: two runs overlap on need.rc.  A run is `need span <n>`        *)
(* (set_config_value) or the modification hook's update_context_in_config. *)
(* Each reads the file, opens it for writing (which empties it) and        *)
(* writes its lines back; a write lands whole.  The store does not change  *)
(* meanwhile.                                                              *)

Proc(kind, arg) ==
    [kind |-> kind, arg |-> arg, pc |-> "start", ok |-> FALSE,
     lines |-> <<>>, found |-> FALSE, filter |-> <<>>]

\* lines 103-111 of update_context_in_config: filter_expr is computed
PCompute(p) ==
    /\ procs[p].kind = "context" /\ procs[p].pc = "start"
    /\ LET lowest == get_lowest_priority(store, NoUuidNum)
           span == TextOf(get_config_value(cfg, SpanKey, Scalar("2")))
           lookahead == TextOf(get_config_value(cfg, LookaheadKey, Scalar("2d")))
           lookback == TextOf(get_config_value(cfg, LookbackKey, Scalar("1w")))
       IN  procs' = [procs EXCEPT ![p] =
              IF lowest = None THEN [@ EXCEPT !.pc = "computed"]
              ELSE IF ~IsInt(span) THEN [@ EXCEPT !.pc = "done"]
              ELSE [@ EXCEPT !.pc = "computed",
                             !.filter = build_context_filter(lowest, span,
                                            lookahead, lookback)]]
    /\ UNCHANGED <<store, cfg, pc, inv, out, exitCode, loc, hist, query>>

\* open(CONFIG_FILE, 'r') and the read of its lines
PRead(p) ==
    /\ \/ procs[p].kind = "span" /\ procs[p].pc = "start"
       \/ procs[p].kind = "context" /\ procs[p].pc = "computed"
    /\ procs' = [procs EXCEPT ![p] =
          IF ~cfg.exists THEN [@ EXCEPT !.pc = "done"]
          ELSE [@ EXCEPT !.pc = "read", !.lines = cfg.lines]]
    /\ UNCHANGED <<store, cfg, pc, inv, out, exitCode, loc, hist, query>>

\* open(CONFIG_FILE, 'w')
POpen(p) ==
    /\ procs[p].pc = "read"
    /\ cfg' = File(<<>>)
    /\ procs' = [procs EXCEPT ![p].pc = "opened"]
    /\ UNCHANGED <<store, pc, inv, out, exitCode, loc, hist, query>>

\* the lines are written and the file is closed
PWrite(p) ==
    /\ procs[p].pc = "opened"
    /\ LET r == IF procs[p].kind = "span"
                THEN set_config_value(File(procs[p].lines), SpanKey,
                                      Scalar(procs[p].arg))
                ELSE write_context(File(procs[p].lines), procs[p].filter)
       IN  /\ cfg' = r.cfg
           /\ procs' = [procs EXCEPT ![p] =
                           [@ EXCEPT !.pc = "done", !.ok = TRUE, !.found = r.found]]
    /\ UNCHANGED <<store, pc, inv, out, exitCode, loc, hist, query>>

ConcFiles ==
    {File(RulesExample \o <<SpanLine(2), ContextLine>>),
     File(RulesExample \o LookLines)}

InitConc ==
    /\ store \in {EmptyStore, OneTask("pending", "3")}
    /\ cfg \in ConcFiles
    /\ procs \in {[A |-> a, B |-> Proc("context", "")] :
                     a \in {Proc("span", "1"), Proc("span", "4"), Proc("context", "")}}
    /\ hist = [NoHist EXCEPT !.init = cfg.lines]
    /\ pc = "idle"
    /\ inv = NoInv
    /\ out = <<>>
    /\ exitCode = 0
    /\ loc = NoLoc
    /\ query = AllOk

NextConc ==
    \E p \in Procs : PCompute(p) \/ PRead(p) \/ POpen(p) \/ PWrite(p)

SpecConc == InitConc /\ [][NextConc]_vars

\* the lines that no set is about
IsOtherLine(l) == l.key \notin {SpanKey, ContextKey, ""}
OtherLines(lines) == SelectSeq(lines, IsOtherLine)

\* C4: when two overlapping runs have both finished their set, the file
\* holds both updates and every other line it had.
C4_BothUpdatesKept ==
    (\A p \in Procs : procs[p].pc = "done" /\ procs[p].ok) =>
        /\ \A p \in Procs :
              IF procs[p].kind = "span"
              THEN get_config_value(cfg, SpanKey, <<>>) = Scalar(procs[p].arg)
              ELSE get_config_value(cfg, ContextKey, Scalar("missing")) = procs[p].filter
        /\ OtherLines(cfg.lines) = OtherLines(hist.init)

----------------------------------------------------------------------------
(* SpecScan: one derivation of the lowest active level, by the modify hook
   or by `need update`, from any store of up to MaxTasks tasks and with at
   most one level whose count query fails *)

ScanPriorities == {"2", "3", "5"}
ScanStores ==
    [Uuids -> {NoTask} \cup {Stored(st, pri) :
                                st \in {"pending", "completed", "deleted"},
                                pri \in ScanPriorities}]
QueryVariants ==
    {AllOk} \cup {[AllOk EXCEPT ![level] = o] :
                     level \in Levels, o \in Outcomes \ {"ok"}}
ScanFiles == {File(<<SpanLine(2), ContextLine>>), File(<<SpanLine(0)>>)}

\* a modification of task u that keeps its priority
ScanModInputs(s, u) ==
    {JsonLine("tw", Task(u, st, s[u].priority, {}, Empty, BuyMilk)) :
        st \in {"pending", "completed", "deleted"}}

InitScan ==
    /\ store \in ScanStores
    /\ cfg \in ScanFiles
    /\ query \in QueryVariants
    /\ pc = "idle"
    /\ inv = NoInv
    /\ out = <<>>
    /\ exitCode = 0
    /\ loc = NoLoc
    /\ hist = NoHist
    /\ procs = NoProcs

NextScan ==
    \/ \E u \in Tasks(store) : \E mod \in ScanModInputs(store, u) :
            OnModify(OrigLine(store, u), mod)
    \/ CmdUpdate

SpecScan == InitScan /\ [][NextScan]_vars

\* the lowest level holding a pending task other than u
LowestPendingOther(s, u) ==
    LET active == {n \in 1..MaxLevel :
                      \E v \in Uuids \ {u} : /\ s[v].status = "pending"
                                              /\ s[v].priority = VALID_PRIORITIES[n]}
    IN  IF active = {} THEN None ELSE VALID_PRIORITIES[Min(active)]

\* C11: when a completion or deletion of task u runs the scan (every count
\* query succeeding), whatever status u has in the store, the scan returns
\* the lowest level holding a pending task other than u, and none when no
\* level holds one: no pending task other than u is taken off a count.
C11_ScanExcludesOnlyU ==
    (pc = "ran" /\ inv.event = "modify" /\ loc.ctxRun
        /\ loc.exclude # NoUuidNum /\ query = AllOk) =>
        loc.lowest = LowestPendingOther(store, loc.exclude)

\* the lowest level whose count query succeeded with a positive count
LowestAnswered(s) ==
    LET active == {n \in 1..MaxLevel :
                      /\ query[VALID_PRIORITIES[n]] = "ok"
                      /\ count_pending(s, VALID_PRIORITIES[n]) > 0}
    IN  IF active = {} THEN None ELSE VALID_PRIORITIES[Min(active)]

\* C12: when the count query of one level fails (nonzero exit, exception
\* or unparsable output) in a derivation without exclusion, the derived
\* level is the lowest level whose query succeeded with a positive count,
\* and the derivation completes and persists the filter it built.
C12_FailedLevelAloneIsZero ==
    (pc = "ran" /\ inv.event \in {"modify", "update"} /\ loc.ctxRun
        /\ loc.exclude = NoUuidNum) =>
        /\ loc.lowest = LowestAnswered(store)
        /\ loc.ctxOk
        /\ get_config_value(cfg, ContextKey, Scalar("missing")) = loc.filter

====
